---- MODULE Spec2Model ----
(***************************************************************************)
(* Longitudinal vehicle model of Longitudinal_Vehicle_Model.ipynb: the     *)
(* Vehicle class (constructor, reset, step) and the notebook's driving     *)
(* loops.                                                                  *)
(*                                                                         *)
(* Arithmetic.  The notebook computes in IEEE double precision.  Here a    *)
(* real number r is the integer floor(r * 10^8), held as four limbs of     *)
(* base 10^4, most significant first: <<n1, n2, n3, n4>> stands for        *)
(*   (n1 * 10^12 + n2 * 10^8 + n3 * 10^4 + n4) / 10^8,                     *)
(* n1 any integer (it carries the sign), n2, n3, n4 in 0 .. 9999.  So      *)
(* <<0, 5, 498, 2975>> is 5.04982975.  Every operation rounds its exact    *)
(* result down to a multiple of 10^-8 (a double rounds to nearest at a     *)
(* relative 10^-16).  Python ints of the source (400, 10, 2000, 10000)     *)
(* stay integers.                                                          *)
(***************************************************************************)
EXTENDS Integers, Sequences, FiniteSets, TLC

Base == 10 ^ 4

\* The value of a one-element set.  {F(y) : y \in {e}} evaluates e once and
\* hands F its value: every operation below takes its operands that way, so
\* that a nested expression is evaluated once, not once per use.
The(S) == CHOOSE y \in S : TRUE

\* Carry propagation: the number with the (unnormalised) limbs t1 .. t4.
Norm(t1, t2, t3, t4) ==
    LET u3 == t3 + (t4 \div Base)
        u2 == t2 + (u3 \div Base)
    IN  <<t1 + (u2 \div Base), u2 % Base, u3 % Base, t4 % Base>>

\* The integer k, and the decimal k + f1/10^4 + f2/10^8.
Whole(k) == Norm(0, k, 0, 0)
Dec(k, f1, f2) == Norm(0, k, f1, f2)
Zero == <<0, 0, 0, 0>>
One == <<0, 1, 0, 0>>
Ulp == <<0, 0, 0, 1>>

Add(p, q) ==
    The({ Norm(y[1] + z[1], y[2] + z[2], y[3] + z[3], y[4] + z[4]) :
          y \in {p}, z \in {q} })
Sub(p, q) ==
    The({ Norm(y[1] - z[1], y[2] - z[2], y[3] - z[3], y[4] - z[4]) :
          y \in {p}, z \in {q} })
Neg(p) == The({ Norm(-y[1], -y[2], -y[3], -y[4]) : y \in {p} })
LessV(p, q) ==
    \/ p[1] < q[1]
    \/ p[1] = q[1] /\ ( \/ p[2] < q[2]
                        \/ p[2] = q[2] /\ ( \/ p[3] < q[3]
                                            \/ p[3] = q[3] /\ p[4] < q[4] ) )
Less(p, q) == \E y \in {p}, z \in {q} : LessV(y, z)
Leq(p, q) == ~Less(q, p)
IsNeg(p) == p[1] < 0
Abs(p) == The({ IF IsNeg(y) THEN Neg(y) ELSE y : y \in {p} })

\* p * k and p / k (rounded down) for an integer k, 0 < k <= 10^5.
MulInt(p, k) == The({ Norm(y[1] * k, y[2] * k, y[3] * k, y[4] * k) : y \in {p} })
DivIntV(p, k) ==
    LET t2 == (p[1] % k) * Base + p[2]
        t3 == (t2 % k) * Base + p[3]
        t4 == (t3 % k) * Base + p[4]
    IN  <<p[1] \div k, t2 \div k, t3 \div k, t4 \div k>>
DivInt(p, k) == The({ DivIntV(y, k) : y \in {p} })

\* p * q rounded down: the long product, its two lowest limbs dropped.
MulV(p, q) ==
    LET p0 == p[4] * q[4]
        p1 == p[3] * q[4] + p[4] * q[3]
        p2 == p[2] * q[4] + p[3] * q[3] + p[4] * q[2]
        p3 == p[1] * q[4] + p[2] * q[3] + p[3] * q[2] + p[4] * q[1]
        p4 == p[1] * q[3] + p[2] * q[2] + p[3] * q[1]
        p5 == p[1] * q[2] + p[2] * q[1]
        p6 == p[1] * q[1]
        s1 == p1 + (p0 \div Base)
        s2 == p2 + (s1 \div Base)
        s3 == p3 + (s2 \div Base)
        s4 == p4 + (s3 \div Base)
    IN  <<p5 + (s4 \div Base) + p6 * Base, s4 % Base, s3 % Base, s2 % Base>>
Mul(p, q) == The({ MulV(y, z) : y \in {p}, z \in {q} })

\* Quotient and remainder of the limb integers n >= 0 and d > 0, by doubling.
RECURSIVE DivMod(_, _)
DivMod(n, d) ==
    IF LessV(n, d)
    THEN <<Zero, n>>
    ELSE The({ IF LessV(h[2], d)
               THEN <<Add(h[1], h[1]), h[2]>>
               ELSE <<Add(Add(h[1], h[1]), Ulp), Sub(h[2], d)>> :
               h \in {The({ DivMod(n, dd) : dd \in {Add(d, d)} })} })

\* Long division of the limbs n6[k], n6[k+1], ... by d > 0, most significant
\* limb first: r is the remainder so far and qs the quotient limbs so far.
RECURSIVE LongDiv(_, _, _, _, _)
LongDiv(n6, d, k, r, qs) ==
    IF k > Len(n6)
    THEN <<qs, r>>
    ELSE The({ LongDiv(n6, d, k + 1, h[2],
                       Append(qs, ((h[1][1] * Base + h[1][2]) * Base + h[1][3]) * Base
                                  + h[1][4])) :
               h \in {DivMod(Norm(r[1] * Base + r[2], r[3], r[4], n6[k]), d)} })

\* n / d rounded down, for n >= 0 and d > 0, and whether it is exact: the
\* quotient of n * 10^8 by d.
DivPos(n, d) ==
    The({ << <<(h[1][1] * Base + h[1][2]) * Base + h[1][3], h[1][4], h[1][5], h[1][6]>>,
             h[2] = Zero >> :
          h \in {LongDiv(<<n[1], n[2], n[3], n[4], 0, 0>>, d, 1, Zero, <<>>)} })

\* p / q rounded down, q # 0.
DivV(p, q) ==
    The({ IF IsNeg(p) = IsNeg(q) \/ p = Zero
          THEN h[1]
          ELSE IF h[2] THEN Neg(h[1]) ELSE Sub(Neg(h[1]), Ulp) :
          h \in {The({ DivPos(y, z) : y \in {Abs(p)}, z \in {Abs(q)} })} })
Div(p, q) == The({ DivV(y, z) : y \in {p}, z \in {q} })

\* numpy's sin and arctan, by their power series: enough terms for 10^-8 on
\* the angles and slopes of the notebook (at most 0.1 in size).
Sin(p) ==
    LET p2 == Mul(p, p)
        t3 == DivInt(Mul(p, p2), 6)
        t5 == DivInt(Mul(t3, p2), 20)
        t7 == DivInt(Mul(t5, p2), 42)
    IN  Sub(Add(Sub(p, t3), t5), t7)
ArcTan(p) ==
    LET p2 == Mul(p, p)
        p3 == Mul(p, p2)
        p5 == Mul(p3, p2)
        p7 == Mul(p5, p2)
        p9 == Mul(p7, p2)
    IN  Add(Sub(Add(Sub(p, DivInt(p3, 3)), DivInt(p5, 5)), DivInt(p7, 7)),
            DivInt(p9, 9))

VARIABLES
    prm,        \* the Vehicle's parameters: self.a_0 .. self.F_max, self.sample_time
    x,          \* self.x
    v,          \* self.v
    a,          \* self.a
    w_e,        \* self.w_e
    w_e_dot,    \* self.w_e_dot
    call,       \* the latest method call: its name, arguments and step's locals
    i,          \* calls of step made so far (the loop index of a driving loop)
    x_data,     \* cell 7's x_data: its two latest entries, as v_data
    v_data,     \* v_data of cells 5 and 7: <<v_data[i-2], v_data[i-1]>>, its two latest entries
    w_e_data,   \* cell 7's w_e_data: its two latest entries, as v_data
    run,        \* the caller: which driving loop runs, with its throttle and incline
    model2,     \* a second Vehicle, of a caller that makes one per thread
    threads     \* the calls of step in progress in threads: line reached, locals

vars == <<prm, x, v, a, w_e, w_e_dot, call, i, x_data, v_data, w_e_data, run, model2, threads>>

\* Vehicle.__init__: the parameters.
Parameters ==
    [ a_0 |-> 400, a_1 |-> Dec(0, 1000, 0), a_2 |-> Neg(Dec(0, 2, 0)),
      GR |-> Dec(0, 3500, 0), r_e |-> Dec(0, 3000, 0), J_e |-> 10, m |-> 2000,
      g |-> Dec(9, 8100, 0),
      c_a |-> Dec(1, 3600, 0), c_r1 |-> Dec(0, 100, 0),
      c |-> 10000, F_max |-> 10000,
      sample_time |-> Dec(0, 100, 0) ]

\* No second Vehicle made.
NoVehicle == [ x |-> Zero, v |-> Zero, a |-> Zero, w_e |-> Zero, w_e_dot |-> Zero ]

NoCall(op) ==
    [ op |-> op, throttle |-> Zero, alpha |-> Zero, T_e |-> Zero, F_load |-> Zero,
      s_finite |-> TRUE, s |-> Zero, F_x |-> Zero ]

\* step, line by line.
\* (a bug: the engine speed of the quadratic term not squared)
T_eNotSquared(throttle) ==
    Mul(throttle, Add(Add(Whole(prm.a_0), Mul(prm.a_1, w_e)), Mul(prm.a_2, w_e)))
T_e(throttle) ==
    Mul(throttle, Add(Add(Whole(prm.a_0), Mul(prm.a_1, w_e)),
                      Mul(prm.a_2, Mul(w_e, w_e))))
\* (a bug: the drag linear in the velocity, the square forgotten)
F_areoLinear == Mul(prm.c_a, v)
F_areo == Mul(prm.c_a, Mul(v, v))
R_x == Mul(prm.c_r1, v)
F_g(alpha) == Mul(MulInt(prm.g, prm.m), Sin(alpha))
F_load(alpha) == Add(Add(F_areo, R_x), F_g(alpha))
w_w == Mul(prm.GR, w_e)
\* self.v is a numpy float from the first step on: dividing by 0.0 gives inf or
\* nan (no exception), and abs() of either is not < 1.
SlipFinite == v # Zero
Slip == IF SlipFinite THEN Div(Sub(Mul(w_w, prm.r_e), v), v) ELSE Zero
\* (a bug: saturation with the sign of the slip, -F_max for s <= -1)
F_xSigned(fin, slip) ==
    The({ IF fin /\ Less(Abs(y), One) THEN MulInt(y, prm.c)
          ELSE IF fin /\ IsNeg(y) THEN Whole(-prm.F_max) ELSE Whole(prm.F_max) :
          y \in {slip} })
\* (a bug: the linear branch taken for |s| <= 1, so s = -1 gives -F_max)
F_xInclusive(fin, slip) ==
    The({ IF fin /\ Leq(Abs(y), One) THEN MulInt(y, prm.c) ELSE Whole(prm.F_max) :
          y \in {slip} })
F_x(fin, slip) ==
    The({ IF fin /\ Less(Abs(y), One) THEN MulInt(y, prm.c) ELSE Whole(prm.F_max) :
          y \in {slip} })

\* The update equations; each reads the fields step has already written.
EngineUpdate == Add(w_e, Mul(w_e_dot', prm.sample_time))
\* (a bug: the velocity advanced with the acceleration of the previous call)
VelocityUpdateStale == Add(v, Mul(a, prm.sample_time))
\* (a bug: the velocity advanced against the acceleration)
VelocityUpdateMinus == Sub(v, Mul(a', prm.sample_time))
VelocityUpdate == Add(v, Mul(a', prm.sample_time))
\* (a bug: the position advanced with the velocity from before the step)
PositionUpdatePreV ==
    Add(x, Sub(Mul(v, prm.sample_time),
               Mul(Mul(Dec(0, 5000, 0), a'), Mul(prm.sample_time, prm.sample_time))))
\* (a bug: the half acceleration term added instead of subtracted)
PositionUpdatePlus ==
    Add(x, Add(Mul(v', prm.sample_time),
               Mul(Mul(Dec(0, 5000, 0), a'), Mul(prm.sample_time, prm.sample_time))))
\* (a bug: the half acceleration term times sample_time, not its square)
PositionUpdateNoSquare ==
    Add(x, Sub(Mul(v', prm.sample_time),
               Mul(Mul(Dec(0, 5000, 0), a'), prm.sample_time)))
\* (a bug: the acceleration term without its factor 0.5)
PositionUpdateNoHalf ==
    Add(x, Sub(Mul(v', prm.sample_time),
               Mul(a', Mul(prm.sample_time, prm.sample_time))))
PositionUpdate ==
    Add(x, Sub(Mul(v', prm.sample_time),
               Mul(Mul(Dec(0, 5000, 0), a'), Mul(prm.sample_time, prm.sample_time))))

\* __init__, reset and a caller's assignment store Python numbers; a completed
\* step stores numpy floats (np.sin makes F_load, and so a, v and x, one).
PythonNumber == call.op # "step"
\* Line 137 divides by self.v: by a Python 0 that raises ZeroDivisionError,
\* by a numpy 0.0 it warns and goes on with inf or nan.
ZeroDivision == v = Zero /\ PythonNumber

\* step up to the exception of line 137: self.w_e_dot of line 134 is written,
\* the lines after 137 are not run.
StepRaises(throttle, alpha) ==
    /\ call' = [ op |-> "ZeroDivisionError", throttle |-> throttle, alpha |-> alpha,
                 T_e |-> T_e(throttle), F_load |-> F_load(alpha),
                 s_finite |-> FALSE, s |-> Zero, F_x |-> Zero ]
    /\ w_e_dot' = DivInt(Sub(call'.T_e, Mul(Mul(prm.GR, prm.r_e), call'.F_load)),
                         prm.J_e)
    /\ UNCHANGED <<prm, x, v, a, w_e>>

\* The locals of step are kept in call: the state is updated from them.
StepCompletes(throttle, alpha) ==
    /\ call' = [ op |-> "step", throttle |-> throttle, alpha |-> alpha,
                 T_e |-> T_e(throttle), F_load |-> F_load(alpha),
                 s_finite |-> SlipFinite, s |-> Slip,
                 F_x |-> F_x(SlipFinite, Slip) ]
    /\ w_e_dot' = DivInt(Sub(call'.T_e, Mul(Mul(prm.GR, prm.r_e), call'.F_load)),
                         prm.J_e)
    /\ a' = DivInt(Sub(call'.F_x, call'.F_load), prm.m)
    /\ w_e' = EngineUpdate
    /\ v' = VelocityUpdate
    /\ x' = PositionUpdate
    /\ UNCHANGED prm

Step(throttle, alpha) ==
    IF ZeroDivision THEN StepRaises(throttle, alpha) ELSE StepCompletes(throttle, alpha)

\* (a bug: reset leaves the engine's speed and acceleration as they are)
ResetKeepsEngine ==
    /\ x' = Whole(0)
    /\ v' = Whole(5)
    /\ a' = Whole(0)
    /\ call' = NoCall("reset")
    /\ UNCHANGED <<prm, w_e, w_e_dot>>
\* (a bug: reset clears sample_time with the state)
ResetClearsSampleTime ==
    /\ x' = Whole(0)
    /\ v' = Whole(5)
    /\ a' = Whole(0)
    /\ w_e' = Whole(100)
    /\ w_e_dot' = Whole(0)
    /\ call' = NoCall("reset")
    /\ prm' = [prm EXCEPT !.sample_time = Zero]
Reset ==
    /\ x' = Whole(0)
    /\ v' = Whole(5)
    /\ a' = Whole(0)
    /\ w_e' = Whole(100)
    /\ w_e_dot' = Whole(0)
    /\ call' = NoCall("reset")
    /\ UNCHANGED prm

\* model = Vehicle()
Construct ==
    /\ prm = Parameters
    /\ x = Whole(0)
    /\ v = Whole(5)
    /\ a = Whole(0)
    /\ w_e = Whole(100)
    /\ w_e_dot = Whole(0)
    /\ call = NoCall("init")
    /\ i = 0
    /\ x_data = <<Zero, Zero>>
    /\ v_data = <<Zero, Zero>>
    /\ w_e_data = <<Zero, Zero>>
    /\ model2 = NoVehicle
    /\ threads = <<>>

Caller(name, throttle, alpha) == [name |-> name, throttle |-> throttle, alpha |-> alpha]

(***************************************************************************)
(* Any caller: calls of step and reset in any order, at most MaxSteps      *)
(* steps, the throttle and the incline of each step drawn from Throttles   *)
(* and Alphas (flat, and the two slopes of the ramp of cell 7).            *)
(***************************************************************************)
MaxSteps == 3
Throttles == {Zero, Dec(0, 4000, 0), One}
Alphas == {Zero, ArcTan(Dec(0, 500, 0)), ArcTan(Dec(0, 1000, 0))}

Init == Construct /\ run = Caller("any", Zero, Zero)

CallStep ==
    /\ i < MaxSteps
    /\ \E throttle \in Throttles, alpha \in Alphas : Step(throttle, alpha)
    /\ i' = i + 1
    /\ UNCHANGED <<x_data, v_data, w_e_data, run, model2, threads>>

CallReset ==
    /\ Reset
    /\ UNCHANGED <<i, x_data, v_data, w_e_data, run, model2, threads>>

Next == CallStep \/ CallReset

Spec == Init /\ [][Next]_vars

\* len(np.arange(0, time_end, sample_time)) for sample_time = 0.01.
Samples(time_end) == time_end * 100

(***************************************************************************)
(* Cell 5: a new Vehicle driven at throttle 0.4 on the flat for            *)
(* time_end = 100 s; v_data[i] is the velocity before step i.              *)
(***************************************************************************)
time_end_5 == 100

InitCruise == Construct /\ run = Caller("cell5", Dec(0, 4000, 0), Whole(0))

Cell5Iter ==
    /\ run.name = "cell5"
    /\ i < Samples(time_end_5)
    /\ v_data' = <<v_data[2], v>>
    /\ Step(run.throttle, run.alpha)
    /\ i' = i + 1
    /\ UNCHANGED <<x_data, w_e_data, run, model2, threads>>

SpecCruise == InitCruise /\ [][Cell5Iter]_vars

(***************************************************************************)
(* Cell 7: the ramp.  model.reset() on the model of cell 5, new arrays of  *)
(* zeros, then time_end = 20 s of steps: the throttle of sample i is a     *)
(* function of t_data[i], the incline a function of the position before    *)
(* the step; x_data[i], v_data[i], w_e_data[i] are read after the step.    *)
(***************************************************************************)
time_end_7 == 20
\* The notebook's global sample_time (cell 5), the step of np.arange.
sample_time == Dec(0, 100, 0)
t_data(k) == MulInt(sample_time, k)

\* (a bug: the last branch measured from t = 15, not from t = 20)
ThrottleFrom15(t) ==
    The({ IF Less(y, Whole(5))
            THEN Add(Dec(0, 2000, 0),
                     Mul(Div(Sub(Dec(0, 5000, 0), Dec(0, 2000, 0)), Whole(5)), y))
          ELSE IF Less(y, Whole(15))
            THEN Dec(0, 5000, 0)
          ELSE Mul(Div(Sub(Whole(0), Dec(0, 5000, 0)), Sub(Whole(20), Whole(15))),
                   Sub(y, Whole(15))) :
          y \in {t} })
\* The throttle profile: the three branches of the loop body.
Throttle(t) ==
    The({ IF Less(y, Whole(5))
            THEN Add(Dec(0, 2000, 0),
                     Mul(Div(Sub(Dec(0, 5000, 0), Dec(0, 2000, 0)), Whole(5)), y))
          ELSE IF Less(y, Whole(15))
            THEN Dec(0, 5000, 0)
          ELSE Mul(Div(Sub(Whole(0), Dec(0, 5000, 0)), Sub(Whole(20), Whole(15))),
                   Sub(y, Whole(20))) :
          y \in {t} })

\* (a bug: the ramp's first slope ends at 150 m and the second at 60 m)
angleSwapped(pos) ==
    IF Less(pos, Whole(150)) THEN ArcTan(Div(Whole(3), Whole(60)))
    ELSE IF Less(pos, Whole(60)) THEN ArcTan(Div(Whole(9), Whole(90)))
    ELSE Whole(0)
\* angle(i, alpha, x): the value it stores in alpha[i].
angle(pos) ==
    IF Less(pos, Whole(60)) THEN ArcTan(Div(Whole(3), Whole(60)))
    ELSE IF Less(pos, Whole(150)) THEN ArcTan(Div(Whole(9), Whole(90)))
    ELSE Whole(0)

Cell7Reset ==
    /\ run.name = "cell5"
    /\ Reset
    /\ i' = 0
    /\ x_data' = <<Zero, Zero>>
    /\ v_data' = <<Zero, Zero>>
    /\ w_e_data' = <<Zero, Zero>>
    /\ run' = Caller("cell7", Zero, Zero)
    /\ UNCHANGED <<model2, threads>>

\* (a bug: the incline chosen from the position after the step)
Cell7IterAngleAfter ==
    /\ run.name = "cell7"
    /\ i < Samples(time_end_7)
    /\ \E alpha \in {ArcTan(Div(Whole(3), Whole(60))),
                      ArcTan(Div(Whole(9), Whole(90))), Zero} :
          /\ Step(Throttle(t_data(i)), alpha)
          /\ alpha = angle(x')
          /\ run' = Caller("cell7", Throttle(t_data(i)), alpha)
    /\ x_data' = <<x_data[2], x'>>
    /\ v_data' = <<v_data[2], v'>>
    /\ w_e_data' = <<w_e_data[2], w_e'>>
    /\ i' = i + 1
    /\ UNCHANGED <<model2, threads>>
\* (a bug: the arrays filled before the step, as cell 5 fills v_data)
Cell7IterPreStep ==
    /\ run.name = "cell7"
    /\ i < Samples(time_end_7)
    /\ run' = Caller("cell7", Throttle(t_data(i)), angle(x))
    /\ x_data' = <<x_data[2], x>>
    /\ v_data' = <<v_data[2], v>>
    /\ w_e_data' = <<w_e_data[2], w_e>>
    /\ Step(run'.throttle, run'.alpha)
    /\ i' = i + 1
    /\ UNCHANGED <<model2, threads>>
\* The loop body: run holds throttle[i] and alpha[i].
Cell7Iter ==
    /\ run.name = "cell7"
    /\ i < Samples(time_end_7)
    /\ run' = Caller("cell7", Throttle(t_data(i)), angle(x))
    /\ Step(run'.throttle, run'.alpha)
    /\ x_data' = <<x_data[2], x'>>
    /\ v_data' = <<v_data[2], v'>>
    /\ w_e_data' = <<w_e_data[2], w_e'>>
    /\ i' = i + 1
    /\ UNCHANGED <<model2, threads>>

\* Cell 7 alone, on the model as cell 5 made it.
NextRamp == Cell7Reset \/ Cell7Iter
SpecRamp == InitCruise /\ [][NextRamp]_vars

\* The two loops that record a trajectory: cell 5, and cell 7 run when cell
\* 5 is done or interrupted.
NextLoops == Cell5Iter \/ Cell7Reset \/ Cell7Iter
SpecLoops == InitCruise /\ [][NextLoops]_vars

(***************************************************************************)
(* Cell 11 ("test various inputs here"): model.reset(), then time_end = 30 *)
(* s of step(0, 0).  The incline is also tried at the two slopes of the    *)
(* ramp, the throttle stays 0.                                             *)
(***************************************************************************)
time_end_11 == 30
CoastAlphas == Alphas

InitCoast ==
    /\ Construct
    /\ \E alpha \in CoastAlphas : run = Caller("cell11", Whole(0), alpha)

Cell11Reset ==
    /\ call.op = "init"
    /\ Reset
    /\ UNCHANGED <<i, x_data, v_data, w_e_data, run, model2, threads>>

Cell11Iter ==
    /\ call.op # "init"
    /\ i < Samples(time_end_11)
    /\ Step(run.throttle, run.alpha)
    /\ i' = i + 1
    /\ UNCHANGED <<x_data, v_data, w_e_data, run, model2, threads>>

NextCoast == Cell11Reset \/ Cell11Iter

SpecCoast == InitCoast /\ [][NextCoast]_vars

(***************************************************************************)
(* The tire force alone: one step from each of a few velocities and engine *)
(* speeds chosen for their slip: 1.1 (v = 5, w_e = 100), exactly 1         *)
(* (v = 5.25, w_e = 100), 0.5, 0, -0.25, exactly -1 (w_e = 0) and below -1 *)
(* (w_e < 0, which cell 11 reaches on a slope with the velocity still      *)
(* positive).                                                              *)
(***************************************************************************)
TireVs == {Whole(5), Dec(5, 2500, 0), Whole(7), Dec(10, 5000, 0)}
TireWs == {Whole(-100), Whole(0), Whole(50), Whole(100)}

InitTire ==
    /\ prm = Parameters
    /\ x = Whole(0)
    /\ v \in TireVs
    /\ a = Whole(0)
    /\ w_e \in TireWs
    /\ w_e_dot = Whole(0)
    /\ call = NoCall("init")
    /\ i = 0
    /\ x_data = <<Zero, Zero>>
    /\ v_data = <<Zero, Zero>>
    /\ w_e_data = <<Zero, Zero>>
    /\ model2 = NoVehicle
    /\ threads = <<>>
    /\ run = Caller("tire", Zero, Zero)

TireStep ==
    /\ i < 1
    /\ \E throttle \in Throttles, alpha \in Alphas : Step(throttle, alpha)
    /\ i' = i + 1
    /\ UNCHANGED <<x_data, v_data, w_e_data, run, model2, threads>>

SpecTire == InitTire /\ [][TireStep]_vars

(***************************************************************************)
(* A stalled vehicle: the caller assigns model.v and model.w_e before it   *)
(* steps, with v = 0 among the values, and the throttle may be negative.   *)
(* From v = 0.03500002, w_e = 0.1 one step(0, 0) brings the velocity to    *)
(* the numpy float 0.0, so both kinds of zero are stepped from.            *)
(***************************************************************************)
StallSteps == 2
StallVs == {Whole(0), Dec(0, 350, 2), Whole(5)}
StallWs == {Dec(0, 1000, 0), Whole(100)}
StallThrottles == {Whole(-1), Zero, One}

InitStall ==
    /\ prm = Parameters
    /\ x = Whole(0)
    /\ v \in StallVs
    /\ a = Whole(0)
    /\ w_e \in StallWs
    /\ w_e_dot = Whole(0)
    /\ call = NoCall("init")
    /\ i = 0
    /\ x_data = <<Zero, Zero>>
    /\ v_data = <<Zero, Zero>>
    /\ w_e_data = <<Zero, Zero>>
    /\ model2 = NoVehicle
    /\ threads = <<>>
    /\ run = Caller("stall", Zero, Zero)

StallStep ==
    /\ i < StallSteps
    /\ \E throttle \in StallThrottles, alpha \in Alphas : Step(throttle, alpha)
    /\ i' = i + 1
    /\ UNCHANGED <<x_data, v_data, w_e_data, run, model2, threads>>

SpecStall == InitStall /\ [][StallStep]_vars

(***************************************************************************)
(* Two threads, each in one call of step: on the same Vehicle (model), or  *)
(* the second on a Vehicle of its own (model2).  A thread runs step one    *)
(* statement at a time, from line 128 to line 150, keeping the locals T_e, *)
(* F_load and F_x; the other thread may run between any two statements.    *)
(* (Python may also switch threads inside a statement; those interleavings *)
(* come on top of the ones here.)  Each statement reads self's fields as   *)
(* they are when it runs.                                                  *)
(***************************************************************************)
NewVehicle ==
    [ x |-> Whole(0), v |-> Whole(5), a |-> Whole(0), w_e |-> Whole(100),
      w_e_dot |-> Whole(0) ]
\* The fields of the Vehicle a thread's self is.
Self(obj) ==
    IF obj = "model"
    THEN [ x |-> x, v |-> v, a |-> a, w_e |-> w_e, w_e_dot |-> w_e_dot ]
    ELSE model2
\* (a bug: the fields kept on the class, so every instance writes the same ones)
StoreOnClass(obj, fields) ==
    /\ x' = fields.x
    /\ v' = fields.v
    /\ a' = fields.a
    /\ w_e' = fields.w_e
    /\ w_e_dot' = fields.w_e_dot
    /\ UNCHANGED model2
\* An assignment self.<field> = ...: the other fields keep their values.
Store(obj, fields) ==
    IF obj = "model"
    THEN /\ x' = fields.x
         /\ v' = fields.v
         /\ a' = fields.a
         /\ w_e' = fields.w_e
         /\ w_e_dot' = fields.w_e_dot
         /\ UNCHANGED model2
    ELSE /\ model2' = fields
         /\ UNCHANGED <<x, v, a, w_e, w_e_dot>>

\* The right-hand sides of lines 128, 129-132 and 136-141 on the values read.
Torque(w, throttle) ==
    Mul(throttle, Add(Add(Whole(prm.a_0), Mul(prm.a_1, w)), Mul(prm.a_2, Mul(w, w))))
Load(vel, alpha) ==
    Add(Add(Mul(prm.c_a, Mul(vel, vel)), Mul(prm.c_r1, vel)),
        Mul(MulInt(prm.g, prm.m), Sin(alpha)))
TireForce(w, vel) ==
    IF vel = Zero THEN Whole(prm.F_max)
    ELSE The({ IF Less(Abs(y), One) THEN MulInt(y, prm.c) ELSE Whole(prm.F_max) :
               y \in {Div(Sub(Mul(Mul(prm.GR, w), prm.r_e), vel), vel)} })

\* A thread about to call obj.step(throttle, alpha).
Thread(obj, throttle, alpha) ==
    [ obj |-> obj, throttle |-> throttle, alpha |-> alpha, line |-> 128,
      T_e |-> Zero, F_load |-> Zero, F_x |-> Zero ]
\* Thread t goes on to line n, its locals as given.
Goto(t, n, locals) == threads' = [threads EXCEPT ![t] = [locals EXCEPT !.line = n]]

Line128(t) ==
    /\ threads[t].line = 128
    /\ Goto(t, 134, [threads[t] EXCEPT
                        !.T_e = Torque(Self(threads[t].obj).w_e, threads[t].throttle),
                        !.F_load = Load(Self(threads[t].obj).v, threads[t].alpha)])
    /\ UNCHANGED <<x, v, a, w_e, w_e_dot, model2>>
Line134(t) ==
    /\ threads[t].line = 134
    /\ Store(threads[t].obj,
             [Self(threads[t].obj) EXCEPT
                !.w_e_dot = DivInt(Sub(threads[t].T_e,
                                       Mul(Mul(prm.GR, prm.r_e), threads[t].F_load)),
                                   prm.J_e)])
    /\ Goto(t, 136, threads[t])
Line136(t) ==
    /\ threads[t].line = 136
    /\ Goto(t, 143, [threads[t] EXCEPT
                        !.F_x = TireForce(Self(threads[t].obj).w_e,
                                          Self(threads[t].obj).v)])
    /\ UNCHANGED <<x, v, a, w_e, w_e_dot, model2>>
\* (a bug: self.a += ..., the new acceleration added to the stored one)
Line143Accumulates(t) ==
    /\ threads[t].line = 143
    /\ Store(threads[t].obj,
             [Self(threads[t].obj) EXCEPT
                !.a = Add(@, DivInt(Sub(threads[t].F_x, threads[t].F_load), prm.m))])
    /\ Goto(t, 146, threads[t])
Line143(t) ==
    /\ threads[t].line = 143
    /\ Store(threads[t].obj,
             [Self(threads[t].obj) EXCEPT
                !.a = DivInt(Sub(threads[t].F_x, threads[t].F_load), prm.m)])
    /\ Goto(t, 146, threads[t])
Line146(t) ==
    /\ threads[t].line = 146
    /\ Store(threads[t].obj,
             [Self(threads[t].obj) EXCEPT
                !.w_e = Add(@, Mul(Self(threads[t].obj).w_e_dot, prm.sample_time))])
    /\ Goto(t, 148, threads[t])
Line148(t) ==
    /\ threads[t].line = 148
    /\ Store(threads[t].obj,
             [Self(threads[t].obj) EXCEPT
                !.v = Add(@, Mul(Self(threads[t].obj).a, prm.sample_time))])
    /\ Goto(t, 150, threads[t])
\* After line 150 the call returns: line 0.
Line150(t) ==
    /\ threads[t].line = 150
    /\ Store(threads[t].obj,
             [Self(threads[t].obj) EXCEPT
                !.x = Add(@, Sub(Mul(Self(threads[t].obj).v, prm.sample_time),
                                 Mul(Mul(Dec(0, 5000, 0), Self(threads[t].obj).a),
                                     Mul(prm.sample_time, prm.sample_time))))])
    /\ Goto(t, 0, threads[t])

ThreadInputs == {<<Dec(0, 4000, 0), Zero>>, <<One, ArcTan(Dec(0, 1000, 0))>>}

InitThreads ==
    /\ prm = Parameters
    /\ x = Whole(0)
    /\ v = Whole(5)
    /\ a = Whole(0)
    /\ w_e = Whole(100)
    /\ w_e_dot = Whole(0)
    /\ call = NoCall("init")
    /\ i = 0
    /\ x_data = <<Zero, Zero>>
    /\ v_data = <<Zero, Zero>>
    /\ w_e_data = <<Zero, Zero>>
    /\ run = Caller("threads", Zero, Zero)
    /\ \E obj \in {"model", "model2"}, in1 \in ThreadInputs, in2 \in ThreadInputs :
          /\ model2 = IF obj = "model2" THEN NewVehicle ELSE NoVehicle
          /\ threads = <<Thread("model", in1[1], in1[2]), Thread(obj, in2[1], in2[2])>>

ThreadStep(t) ==
    /\ \/ Line128(t)
       \/ Line134(t)
       \/ Line136(t)
       \/ Line143(t)
       \/ Line146(t)
       \/ Line148(t)
       \/ Line150(t)
    /\ UNCHANGED <<prm, call, i, x_data, v_data, w_e_data, run>>

NextThreads == \E t \in {1, 2} : ThreadStep(t)
SpecThreads == InitThreads /\ [][NextThreads]_vars

(***************************************************************************)
(* Twins: model and model2 agree on x, v and w_e, drawn from TireVs and    *)
(* TireWs, and differ in the a and w_e_dot they hold (model: 0 and 0,      *)
(* model2: values left by some earlier call); each is stepped once with    *)
(* the same throttle and incline.                                          *)
(***************************************************************************)
TwinLeftovers == {<<Whole(3), Whole(-7)>>, <<Dec(4, 9829, 7500), Dec(15, 9624, 7500)>>}

InitTwins ==
    /\ prm = Parameters
    /\ x = Whole(0)
    /\ v \in TireVs
    /\ a = Whole(0)
    /\ w_e \in TireWs
    /\ w_e_dot = Whole(0)
    /\ call = NoCall("init")
    /\ i = 0
    /\ x_data = <<Zero, Zero>>
    /\ v_data = <<Zero, Zero>>
    /\ w_e_data = <<Zero, Zero>>
    /\ run = Caller("twins", Zero, Zero)
    /\ \E left \in TwinLeftovers, in \in ThreadInputs :
          /\ model2 = [ x |-> x, v |-> v, a |-> left[1], w_e |-> w_e,
                        w_e_dot |-> left[2] ]
          /\ threads = <<Thread("model", in[1], in[2]), Thread("model2", in[1], in[2])>>

SpecTwins == InitTwins /\ [][NextThreads]_vars

(***************************************************************************)
(*                              The claims                                 *)
(***************************************************************************)

\* p is q to the stated precision: they differ by less than tol, half a unit
\* of the last stated place.
Near(p, q, tol) == Less(Abs(Sub(p, q)), tol)

\* The state after exactly one call of step, step(0.4, 0), since construction.
GoldenStep ==
    /\ i = 1
    /\ call.op = "step"
    /\ call.throttle = Dec(0, 4000, 0)
    /\ call.alpha = Zero

\* C1: one step(0.4, 0) from the initial state computes T_e = 163.2,
\* F_load = 34.05 and slip 1.1, so takes the saturated branch F_x = 10000, gets
\* w_e_dot = 15.962 and a = 4.983 to three places, and leaves w_e = 100.1596 (to
\* four places) and v = 5.04983 (to five).
GoldenEngineAndVelocity ==
    GoldenStep =>
        /\ call.T_e = Dec(163, 2000, 0)
        /\ call.F_load = Dec(34, 500, 0)
        /\ call.s_finite /\ call.s = Dec(1, 1000, 0)
        /\ call.F_x = Whole(10000)
        /\ Near(w_e_dot, Dec(15, 9620, 0), Dec(0, 5, 0))
        /\ Near(a, Dec(4, 9830, 0), Dec(0, 5, 0))
        /\ Near(w_e, Dec(100, 1596, 0), Dec(0, 0, 5000))
        /\ Near(v, Dec(5, 498, 3000), Dec(0, 0, 500))
GoldenStepTaken == GoldenStep /\ Less(Whole(100), w_e) /\ Less(Whole(5), v)

\* C2 as the spec states it: the golden step leaves x = 0.05041 to five places.
GoldenPositionAsStated == GoldenStep => Near(x, Dec(0, 504, 1000), Dec(0, 0, 500))
\* C2, amended: one step(0.4, 0) from the initial state leaves x = 0.05025 to
\* five places (0.0504982975 - 0.00024914875 = 0.05024914875).
GoldenPosition == GoldenStep => Near(x, Dec(0, 502, 5000), Dec(0, 0, 500))
GoldenPositionReached == GoldenStep /\ Less(Zero, x) /\ Less(x, Dec(0, 503, 0))

\* C3: after any sequence of steps, reset leaves exactly x = 0, v = 5, a = 0,
\* w_e = 100, w_e_dot = 0, the state of a new Vehicle.
ResetRestoresInitialState ==
    call.op = "reset" =>
        /\ x = Whole(0)
        /\ v = Whole(5)
        /\ a = Whole(0)
        /\ w_e = Whole(100)
        /\ w_e_dot = Whole(0)
ResetAfterSteps == call.op = "reset" /\ i >= 2

\* The step of section 4.1 of the specification, on the state (x0, v0, w0) from
\* before the call: <<x, v, a, w_e, w_e_dot>> after it.
Reference(x0, v0, w0, throttle, alpha) ==
    LET dt == prm.sample_time
        torque == Mul(throttle, Add(Add(Whole(prm.a_0), Mul(prm.a_1, w0)),
                                    Mul(prm.a_2, Mul(w0, w0))))
        load == Add(Add(Mul(prm.c_a, Mul(v0, v0)), Mul(prm.c_r1, v0)),
                    Mul(MulInt(prm.g, prm.m), Sin(alpha)))
        wdot == DivInt(Sub(torque, Mul(Mul(prm.GR, prm.r_e), load)), prm.J_e)
        slip == Div(Sub(Mul(Mul(prm.GR, w0), prm.r_e), v0), v0)
        force == IF Less(Abs(slip), One) THEN MulInt(slip, prm.c) ELSE Whole(prm.F_max)
        acc == DivInt(Sub(force, load), prm.m)
        w1 == Add(w0, Mul(wdot, dt))
        v1 == Add(v0, Mul(acc, dt))
        x1 == Add(x0, Sub(Mul(v1, dt), Mul(Mul(Dec(0, 5000, 0), acc), Mul(dt, dt))))
    IN  <<x1, v1, acc, w1, wdot>>

TireForcePolicy ==
    (call.op = "step" /\ call.s_finite) =>
        /\ IF Less(Whole(-1), call.s) /\ Less(call.s, Whole(1))
           THEN call.F_x = MulInt(call.s, 10000)
           ELSE call.F_x = Whole(10000)
        /\ a = DivInt(Sub(call.F_x, call.F_load), 2000)
TireSaturatedAtMinusOne ==
    call.op = "step" /\ call.s = Whole(-1) /\ call.F_x = Whole(10000)

\* Cell 11 as written: throttle 0 on the flat, from the reset state.
FlatCoast == run.name = "cell11" /\ run.throttle = Zero /\ run.alpha = Zero

\* C6 as the spec states it: with throttle 0 and alpha 0, every step from a
\* state with v > 0 strictly decreases the velocity.
CoastSlowsEveryStep ==
    [][ (FlatCoast /\ call'.op = "step" /\ Less(Zero, v)) => Less(v', v) ]_vars
\* C6, amended: with throttle 0 and alpha 0 from the initial state the engine
\* torque is 0 and every step strictly decreases the engine speed w_e, but the
\* tire force is not 0 (slip 1.1 at first, so F_x = F_max): in each of the first
\* 526 steps the velocity strictly increases (from 5 to 9.7526 m/s), and every
\* later step of the run strictly decreases it.
CoastVelocityTurnsOnce ==
    [][ (FlatCoast /\ call'.op = "step") =>
            /\ call'.T_e = Zero
            /\ Less(w_e', w_e)
            /\ IF i' <= 526 THEN Less(v, v') ELSE Less(v', v) ]_vars
CoastPastItsPeak == FlatCoast /\ call.op = "step" /\ i > 526 /\ IsNeg(a)

CruiseStabilizes ==
    run.name = "cell5" =>
        /\ i - 1 >= 5627 => Near(v_data[2], v_data[1], Dec(0, 1, 0))
        /\ i = Samples(time_end_5) => Near(call.F_x, call.F_load, One)
CruiseRunComplete ==
    /\ run.name = "cell5"
    /\ i = Samples(time_end_5)
    /\ Near(v_data[2], v_data[1], Dec(0, 1, 0))
    /\ Less(Whole(33), v)

\* C9: a step with v >= 0 before and after it does not decrease the position x,
\* whatever the sign of the acceleration.
PositionNeverDecreases ==
    [][ (call'.op = "step" /\ ~IsNeg(v) /\ ~IsNeg(v')) => Leq(x, x') ]_vars
BrakingWhileForward ==
    call.op = "step" /\ run.alpha # Zero /\ IsNeg(a) /\ Less(Zero, v) /\ Less(Zero, x)

\* C10: step and reset leave every parameter at its constructor value, with
\* sample_time = 0.01.
ParametersUnchanged == prm = Parameters /\ prm.sample_time = Dec(0, 100, 0)
ParametersAfterStepsAndReset ==
    call.op = "reset" /\ i = MaxSteps /\ prm.F_max = 10000 /\ prm.m = 2000

\* C11: step never signals an error: from every state, a velocity of 0 and a
\* negative throttle included, the call runs to its end; none raises, leaving
\* the state written in part.
StepNeverRaises == call.op # "ZeroDivisionError"
\* The step that raised has written self.w_e_dot and nothing else.
StepRaisedHalfUpdated ==
    /\ call.op = "ZeroDivisionError"
    /\ IsNeg(call.throttle)
    /\ v = Zero /\ a = Zero /\ x = Zero
    /\ w_e_dot # Zero
\* A step from the numpy zero that a step left runs to its end.
StepFromNumpyZeroCompletes ==
    call.op = "step" /\ ~call.s_finite /\ call.F_x = Whole(prm.F_max)

\* C12 (as stated): every loop that records a trajectory stores in slot i the
\* state after the step of iteration i.
LoopsRecordPostStep == (i > 0 /\ call.op = "step") => v_data[2] = v
\* C12 (amended): each loop makes one step per sample and at most N of them;
\* the ramp run steps with the throttle of t_data[i] and stores in slot i the
\* x, v and w_e after that step, so consecutive slots are one step apart; the
\* constant-throttle run stores in slot i the velocity before the step.
LoopsRecordOncePerSample ==
    /\ run.name = "cell5" => i <= Samples(time_end_5)
    /\ run.name = "cell7" => i <= Samples(time_end_7)
    /\ (run.name = "cell7" /\ i > 0) =>
          /\ call.op = "step"
          /\ call.throttle = Throttle(t_data(i - 1))
          /\ x_data[2] = x /\ v_data[2] = v /\ w_e_data[2] = w_e
          /\ i > 1 => v_data[1] = Sub(v, Mul(a, prm.sample_time))
    /\ (run.name = "cell5" /\ i > 0) =>
          /\ call.op = "step"
          /\ v_data[2] = Sub(v, Mul(a, prm.sample_time))
          /\ i = 1 => v_data[2] = Whole(5) /\ v_data[2] # v
RampRunComplete ==
    /\ run.name = "cell7" /\ i = Samples(time_end_7)
    /\ x_data[2] = x /\ Less(Whole(200), x)

\* C14: in the ramp run the position first reaches 150 m, the end of the
\* ramp, at about t = 15 s (less than 0.1 s from it), where the throttle has
\* just begun to decrease (it is below 0.5 by less than 0.01).
RampEndCrossedAt15s ==
    [][ (run.name = "cell7" /\ Less(x, Whole(150)) /\ ~Less(x', Whole(150))) =>
          /\ Near(t_data(i), Whole(15), Dec(0, 1000, 0))
          /\ Less(run'.throttle, Dec(0, 5000, 0))
          /\ Near(run'.throttle, Dec(0, 5000, 0), Dec(0, 100, 0)) ]_vars
RampEndJustCrossed ==
    /\ run.name = "cell7"
    /\ Less(x_data[1], Whole(150)) /\ ~Less(x_data[2], Whole(150))

\* C15: the throttle of the ramp run is a trapezoid inside [0, 1]: 0.2 at
\* t = 0, not decreasing up to t = 5, 0.5 for 5 <= t < 15, not increasing
\* from t = 15 on, and no two consecutive samples more than 0.001 apart (the
\* steepest slope times sample_time), so it does not jump at t = 5 or t = 15.
ThrottleIsTrapezoid ==
    [][ run'.name = "cell7" /\ i' > 0 =>
          /\ Leq(Zero, run'.throttle) /\ Leq(run'.throttle, One)
          /\ i = 0 => run'.throttle = Dec(0, 2000, 0)
          /\ (i > 0 /\ Leq(t_data(i), Whole(5))) => Leq(run.throttle, run'.throttle)
          /\ (Leq(Whole(5), t_data(i)) /\ Less(t_data(i), Whole(15))) =>
                run'.throttle = Dec(0, 5000, 0)
          /\ Leq(Whole(15), t_data(i)) => Leq(run'.throttle, run.throttle)
          /\ i > 0 => Leq(Abs(Sub(run'.throttle, run.throttle)), Dec(0, 10, 0)) ]_vars
ThrottleComingDown ==
    /\ run.name = "cell7" /\ i = Samples(time_end_7)
    /\ Less(Zero, run.throttle) /\ Less(run.throttle, Dec(0, 100, 0))

\* C16: the incline of iteration i is chosen from the position before its
\* step (arctan(3/60) below 60 m, arctan(9/90) from 60 m to below 150 m, else
\* 0), and the phases do not revert: after arctan(9/90) no arctan(3/60), after
\* 0 only 0.
InclinePhasesInOrder ==
    [][ run'.name = "cell7" /\ i' > 0 =>
          /\ Less(x, Whole(60)) => run'.alpha = ArcTan(Dec(0, 500, 0))
          /\ (Leq(Whole(60), x) /\ Less(x, Whole(150))) =>
                run'.alpha = ArcTan(Dec(0, 1000, 0))
          /\ Leq(Whole(150), x) => run'.alpha = Zero
          /\ call'.alpha = run'.alpha
          /\ (i > 0 /\ run.alpha = ArcTan(Dec(0, 1000, 0))) =>
                run'.alpha # ArcTan(Dec(0, 500, 0))
          /\ (i > 0 /\ run.alpha = Zero) => run'.alpha = Zero ]_vars
InclineAllPhasesPassed ==
    /\ run.name = "cell7" /\ i = Samples(time_end_7)
    /\ run.alpha = Zero /\ Leq(Whole(150), x_data[1])

\* The fields of a Vehicle, in the order of Reference.
Fields(obj) ==
    <<Self(obj).x, Self(obj).v, Self(obj).a, Self(obj).w_e, Self(obj).w_e_dot>>
\* The call of thread t run alone on a new Vehicle, and after that the call of
\* thread u on the same Vehicle.
Alone(t) ==
    Reference(Whole(0), Whole(5), Whole(100), threads[t].throttle, threads[t].alpha)
InSequence(t, u) ==
    The({ Reference(y[1], y[2], y[4], threads[u].throttle, threads[u].alpha) :
          y \in {Alone(t)} })

\* C13: two calls of step on independent Vehicles never affect each other's
\* state: however they interleave, each Vehicle ends as if its call ran alone,
\* and is untouched until its own call writes.  On one shared Vehicle a call
\* that returns before the other begins ends so too; calls that interleave
\* need not end in the state of either sequential order (SharedStepsRaced).
StepsOnOwnVehicles ==
    /\ threads[2].obj = "model2" =>
          \A t \in {1, 2} :
              /\ threads[t].line = 0 => Fields(threads[t].obj) = Alone(t)
              /\ threads[t].line \in {128, 134} =>
                    <<Self(threads[t].obj).x, Self(threads[t].obj).v,
                      Self(threads[t].obj).w_e>> = <<Whole(0), Whole(5), Whole(100)>>
    /\ threads[2].obj = "model" =>
          \A t \in {1, 2} :
              (threads[t].line = 0 /\ threads[3 - t].line = 128) =>
                  Fields("model") = Alone(t)
\* Both calls on the shared Vehicle have returned, and its state is that of
\* neither sequential order.
SharedStepsRaced ==
    /\ threads[2].obj = "model"
    /\ threads[1].line = 0 /\ threads[2].line = 0
    /\ Fields("model") # InSequence(1, 2)
    /\ Fields("model") # InSequence(2, 1)

\* C17: in every step the position advances by sample_time * (v_before +
\* v_after) / 2, the trapezoidal average of the two velocities, up to the
\* rounding of the arithmetic (less than 2 units of the last place).
PositionStepIsTrapezoid ==
    [][ call'.op = "step" =>
          Near(Sub(x', x), DivInt(Mul(prm.sample_time, Add(v, v')), 2),
               Dec(0, 0, 2)) ]_vars
TrapezoidWhileReversing == call.op = "step" /\ IsNeg(v) /\ IsNeg(a) /\ i > 1000

TireForceBounded ==
    (call.op = "step" /\ call.s_finite) =>
        /\ prm.c = prm.F_max /\ prm.F_max = 10000
        /\ Less(Whole(-prm.F_max), call.F_x) /\ Leq(call.F_x, Whole(prm.F_max))
        /\ Less(DivInt(Sub(Whole(-prm.F_max), call.F_load), prm.m), a)
        /\ Leq(a, DivInt(Sub(Whole(prm.F_max), call.F_load), prm.m))
TireForceBraking ==
    call.op = "step" /\ call.s_finite /\ IsNeg(call.F_x) /\ IsNeg(a)

====
